---- MODULE Spec2Model ----
(***************************************************************************)
(* Booking / conflict-resolution core of the fitness club system:          *)
(* room bookings, group classes, trainer availability, personal-training   *)
(* sessions and class registrations, as implemented by AdminService,       *)
(* TrainerService and MemberService over one shared SQLAlchemy session.    *)
(*                                                                         *)
(* Time is discrete.  A datetime is a slot number t; its date is           *)
(* t \div SlotsPerDay and its time of day is t % SlotsPerDay, so that      *)
(* datetime.time() of an end lying after midnight wraps around exactly as  *)
(* in the code.                                                            *)
(***************************************************************************)
EXTENDS Integers, Sequences, FiniteSets, TLC

VARIABLES
    now,        \* datetime.now(), a slot number
    rooms,      \* rooms table: room_id -> capacity
    bookings,   \* room_bookings table: booking_id -> row
    avail,      \* trainer_availability table: set of rows (unique by constraint)
    classes,    \* fitness_classes table as committed: class_id -> row
    loaded,     \* FitnessClass objects of the session's identity map (may be dirty)
    sessions,   \* personal_training_sessions table: session_id -> row
    regs,       \* class_registrations table: registration_id -> row
    calls       \* per client process with a session of its own: its call in progress

vars == <<now, rooms, bookings, avail, classes, loaded, sessions, regs, calls>>

----------------------------------------------------------------------------
(* Bounds of the model *)

MaxNow == 1
MaxBookings == 2
MaxClasses == 2
MaxAvail == 2
MaxSessions == 2
MaxRegs == 2

(* Program constants *)

DaysPerWeek == 7

----------------------------------------------------------------------------
(* Identities.  Members and trainers are created by the account layer;     *)
(* id 3 denotes a member / trainer / room that does not exist.  room_id 0  *)
(* stands for "no room" (None), capacity -1 for an omitted capacity        *)
(* (None); an explicit capacity of 0 is a value of its own.                *)

Members == {1, 2}
Trainers == {1, 2}
MissingId == 3
NoRoom == 0
NoCapacity == 0 - 1

(* The day is cut into three slots, the least number that has touching,    *)
(* overlapping and nested windows and ends that wrap past midnight.        *)
(* Dates are yesterday, today and tomorrow, relative to the day the clock  *)
(* starts in.                                                              *)
TimesOfDay == {0, 1, 2}
SlotsPerDay == Cardinality(TimesOfDay)
Dates == {-1, 0, 1}
DateTimes == (0 - 1) .. (2 * SlotsPerDay - 1)
Durations == 0 .. (SlotsPerDay - 1)

DateOf(t) == t \div SlotsPerDay
TimeOf(t) == t % SlotsPerDay
WeekdayOf(t) == DateOf(t) % DaysPerWeek
Today == DateOf(now)

----------------------------------------------------------------------------
(* RoomBooking.conflicts_with *)

conflicts_with_StartOnly(self, other) ==
    IF self.room # other.room THEN FALSE
    ELSE IF self.date # other.date THEN FALSE
    ELSE IF self.status = "cancelled" \/ other.status = "cancelled" THEN FALSE
    ELSE (self.start < other.end) /\ (other.start <= self.start)

conflicts_with(self, other) ==
    IF self.room # other.room THEN FALSE
    ELSE IF self.date # other.date THEN FALSE
    ELSE IF self.status = "cancelled" \/ other.status = "cancelled" THEN FALSE
    ELSE (self.start < other.end) /\ (other.start < self.end)

(* session.commit() flushes the dirty objects of the identity map and      *)
(* session.rollback() discards them; a call that does neither leaves them. *)

Flush(txn) ==
    /\ classes' = IF txn = "commit" THEN loaded ELSE classes
    /\ loaded' = IF txn = "rollback" THEN classes ELSE loaded

----------------------------------------------------------------------------
(* BookingStatus, and the RoomBooking objects that conflicts_with can be   *)
(* given                                                                   *)

BookingStatus == {"confirmed", "pending", "cancelled"}

RoomBookings ==
    [room : DOMAIN rooms, date : {0, 1}, start : TimesOfDay, end : TimesOfDay,
     status : BookingStatus]

(* AdminService.book_room *)

ExistingBookings(room_id, booking_date) ==
    {i \in DOMAIN bookings :
        /\ bookings[i].room = room_id
        /\ bookings[i].date = booking_date
        /\ bookings[i].status # "cancelled"}

NewBooking(room_id, booking_date, start_time, end_time) ==
    [room |-> room_id, date |-> booking_date, start |-> start_time,
     end |-> end_time, status |-> "confirmed"]

book_room_error_PastFirst(room_id, booking_date, start_time, end_time) ==
    IF room_id \notin DOMAIN rooms THEN "NotFound"
    ELSE IF booking_date < Today THEN "PastDate"
    ELSE IF start_time >= end_time THEN "InvalidRange"
    ELSE IF \E i \in ExistingBookings(room_id, booking_date) :
                conflicts_with(NewBooking(room_id, booking_date, start_time, end_time),
                               bookings[i])
         THEN "Conflict"
    ELSE "none"

book_room_error(room_id, booking_date, start_time, end_time) ==
    IF room_id \notin DOMAIN rooms THEN "NotFound"
    ELSE IF start_time >= end_time THEN "InvalidRange"
    ELSE IF booking_date < Today THEN "PastDate"
    ELSE IF \E i \in ExistingBookings(room_id, booking_date) :
                conflicts_with(NewBooking(room_id, booking_date, start_time, end_time),
                               bookings[i])
         THEN "Conflict"
    ELSE "none"

(* The bookings that the loop over existing_bookings can stop at: the      *)
(* query has no ORDER BY, so the message names any one of them.            *)
Colliding(room_id, booking_date, start_time, end_time) ==
    {i \in ExistingBookings(room_id, booking_date) :
        conflicts_with(NewBooking(room_id, booking_date, start_time, end_time),
                       bookings[i])}

book_room(room_id, booking_date, start_time, end_time) ==
    LET err == book_room_error(room_id, booking_date, start_time, end_time) IN
    IF err = "none"
    THEN [error |-> err, txn |-> "commit", named |-> {},
          bookings |-> Append(bookings,
                              NewBooking(room_id, booking_date, start_time, end_time))]
    ELSE [error |-> err, txn |-> "none",
          named |-> IF err = "Conflict"
                    THEN {<<bookings[i].start, bookings[i].end>> :
                            i \in Colliding(room_id, booking_date, start_time, end_time)}
                    ELSE {},
          bookings |-> bookings]

BookRoom(room_id, booking_date, start_time, end_time) ==
    LET r == book_room(room_id, booking_date, start_time, end_time) IN
    /\ Len(bookings) < MaxBookings
    /\ bookings' = r.bookings
    /\ Flush(r.txn)
    /\ UNCHANGED <<now, rooms, avail, sessions, regs, calls>>

(* AdminService.get_room_bookings: the ids of the non-cancelled bookings   *)
(* of the room, from from_date on when one is given, ordered by date and   *)
(* start time (rows equal in both come in any order).                      *)

NoDate == 0 - 2

get_room_bookings(room_id, from_date) ==
    LET ids == {i \in DOMAIN bookings :
                    /\ bookings[i].room = room_id
                    /\ bookings[i].status # "cancelled"
                    /\ (from_date # NoDate => bookings[i].date >= from_date)}
        Before(i, j) ==
            \/ bookings[i].date < bookings[j].date
            \/ /\ bookings[i].date = bookings[j].date
               /\ bookings[i].start <= bookings[j].start
    IN CHOOSE seq \in [1 .. Cardinality(ids) -> ids] :
            /\ \A k \in 1 .. Cardinality(ids) : \A l \in 1 .. Cardinality(ids) :
                    k # l => seq[k] # seq[l]
            /\ \A k \in 1 .. Cardinality(ids) : \A l \in 1 .. Cardinality(ids) :
                    k < l => Before(seq[k], seq[l])

(* AdminService.cancel_room_booking *)

cancel_room_booking_Pending(booking_id) ==
    IF booking_id \notin DOMAIN bookings
    THEN [error |-> "NotFound", txn |-> "none", bookings |-> bookings]
    ELSE [error |-> "none", txn |-> "commit",
          bookings |-> [bookings EXCEPT ![booking_id].status = "pending"]]

cancel_room_booking(booking_id) ==
    IF booking_id \notin DOMAIN bookings
    THEN [error |-> "NotFound", txn |-> "none", bookings |-> bookings]
    ELSE [error |-> "none", txn |-> "commit",
          bookings |-> [bookings EXCEPT ![booking_id].status = "cancelled"]]

CancelRoomBooking(booking_id) ==
    LET r == cancel_room_booking(booking_id) IN
    /\ bookings' = r.bookings
    /\ Flush(r.txn)
    /\ UNCHANGED <<now, rooms, avail, sessions, regs, calls>>

(* AdminService.is_room_available *)

is_room_available(room_id, booking_date, start_time, end_time) ==
    ~ \E i \in ExistingBookings(room_id, booking_date) :
        (start_time < bookings[i].end) /\ (bookings[i].start < end_time)

----------------------------------------------------------------------------
(* AdminService.create_class *)

create_class_error_AnyCapacity(trainer_id, room_id, scheduled_time, duration_minutes, capacity) ==
    IF trainer_id \notin Trainers THEN "NotFound"
    ELSE IF room_id \notin DOMAIN rooms THEN "NotFound"
    ELSE IF duration_minutes <= 0 THEN "InvalidRange"
    ELSE IF scheduled_time < now THEN "PastSchedule"
    ELSE IF ~ is_room_available(room_id, DateOf(scheduled_time), TimeOf(scheduled_time),
                                TimeOf(scheduled_time + duration_minutes))
         THEN "RoomConflict"
    ELSE "none"

create_class_error(trainer_id, room_id, scheduled_time, duration_minutes, capacity) ==
    IF trainer_id \notin Trainers THEN "NotFound"
    ELSE IF room_id \notin DOMAIN rooms THEN "NotFound"
    ELSE IF capacity # NoCapacity /\ capacity > rooms[room_id] THEN "CapacityExceeded"
    ELSE IF duration_minutes <= 0 THEN "InvalidRange"
    ELSE IF scheduled_time < now THEN "PastSchedule"
    ELSE IF ~ is_room_available(room_id, DateOf(scheduled_time), TimeOf(scheduled_time),
                                TimeOf(scheduled_time + duration_minutes))
         THEN "RoomConflict"
    ELSE "none"

NewClass(trainer_id, room_id, scheduled_time, duration_minutes, capacity) ==
    [trainer |-> trainer_id, room |-> room_id, time |-> scheduled_time,
     dur |-> duration_minutes,
     cap |-> IF capacity = NoCapacity THEN rooms[room_id] ELSE capacity,
     status |-> "scheduled"]

create_class(trainer_id, room_id, scheduled_time, duration_minutes, capacity) ==
    LET err == create_class_error(trainer_id, room_id, scheduled_time,
                                  duration_minutes, capacity)
    IN
    IF err = "none"
    THEN [error |-> err, txn |-> "commit",
          loaded |-> Append(loaded, NewClass(trainer_id, room_id, scheduled_time,
                                             duration_minutes, capacity)),
          bookings |-> Append(bookings,
                NewBooking(room_id, DateOf(scheduled_time), TimeOf(scheduled_time),
                           TimeOf(scheduled_time + duration_minutes)))]
    ELSE [error |-> err, txn |-> "none", loaded |-> loaded, bookings |-> bookings]

CreateClass(trainer_id, room_id, scheduled_time, duration_minutes, capacity) ==
    LET r == create_class(trainer_id, room_id, scheduled_time, duration_minutes, capacity)
    IN
    /\ Len(classes) < MaxClasses
    /\ Len(bookings) < MaxBookings
    /\ bookings' = r.bookings
    /\ loaded' = r.loaded
    /\ classes' = IF r.txn = "commit" THEN r.loaded ELSE classes
    /\ UNCHANGED <<now, rooms, avail, sessions, regs, calls>>

----------------------------------------------------------------------------
(* TrainerService.set_availability.  day_of_week is the ordinal of the     *)
(* weekday named by the token (0 = MONDAY); InvalidDay stands for a token  *)
(* that names no weekday.                                                  *)

InvalidDay == 0 - 1
Weekdays == 0 .. (DaysPerWeek - 1)

NewSlot(trainer_id, day_of_week, start_time, end_time) ==
    [trainer |-> trainer_id, day |-> day_of_week, start |-> start_time, end |-> end_time]

(* TrainerAvailability.overlaps_with *)

overlaps_with_StartOnly(self, other) ==
    IF self.trainer # other.trainer THEN FALSE
    ELSE IF self.day # other.day THEN FALSE
    ELSE (self.start < other.end) /\ (other.start <= self.start)

overlaps_with(self, other) ==
    IF self.trainer # other.trainer THEN FALSE
    ELSE IF self.day # other.day THEN FALSE
    ELSE (self.start < other.end) /\ (other.start < self.end)

set_availability_error_RangeFirst(trainer_id, day_of_week, start_time, end_time) ==
    IF trainer_id \notin Trainers THEN "NotFound"
    ELSE IF start_time >= end_time THEN "InvalidRange"
    ELSE IF day_of_week \notin Weekdays THEN "InvalidDay"
    ELSE IF \E slot \in avail :
                /\ slot.trainer = trainer_id
                /\ slot.day = day_of_week
                /\ overlaps_with(NewSlot(trainer_id, day_of_week, start_time, end_time), slot)
         THEN "Overlap"
    ELSE IF NewSlot(trainer_id, day_of_week, start_time, end_time) \in avail
         THEN "Duplicate"
    ELSE "none"

set_availability_error(trainer_id, day_of_week, start_time, end_time) ==
    IF trainer_id \notin Trainers THEN "NotFound"
    ELSE IF day_of_week \notin Weekdays THEN "InvalidDay"
    ELSE IF start_time >= end_time THEN "InvalidRange"
    ELSE IF \E slot \in avail :
                /\ slot.trainer = trainer_id
                /\ slot.day = day_of_week
                /\ overlaps_with(NewSlot(trainer_id, day_of_week, start_time, end_time), slot)
         THEN "Overlap"
    ELSE IF NewSlot(trainer_id, day_of_week, start_time, end_time) \in avail
         THEN "Duplicate"
    ELSE "none"

(* The message of an overlap names the slot the loop over existing_slots   *)
(* stopped at; the query has no ORDER BY, so it is any overlapping one.    *)
set_availability(trainer_id, day_of_week, start_time, end_time) ==
    LET err == set_availability_error(trainer_id, day_of_week, start_time, end_time) IN
    IF err = "none"
    THEN [error |-> err, txn |-> "commit", named |-> {},
          avail |-> avail \cup {NewSlot(trainer_id, day_of_week, start_time, end_time)}]
    ELSE [error |-> err, txn |-> IF err = "Duplicate" THEN "rollback" ELSE "none",
          named |-> IF err = "Overlap"
                    THEN {<<slot.start, slot.end>> : slot \in
                            {w \in avail :
                                /\ w.trainer = trainer_id
                                /\ w.day = day_of_week
                                /\ overlaps_with(NewSlot(trainer_id, day_of_week,
                                                         start_time, end_time), w)}}
                    ELSE {},
          avail |-> avail]

SetAvailability(trainer_id, day_of_week, start_time, end_time) ==
    LET r == set_availability(trainer_id, day_of_week, start_time, end_time) IN
    /\ Cardinality(avail) < MaxAvail
    /\ avail' = r.avail
    /\ Flush(r.txn)
    /\ UNCHANGED <<now, rooms, bookings, sessions, regs, calls>>

(* TrainerService.delete_availability.  A row of the table is identified   *)
(* by its columns, which the uniqueness constraint keeps distinct; the     *)
(* availability_id of the call stands for the row it names.                *)

delete_availability(trainer_id, availability_id) ==
    IF availability_id \notin avail \/ availability_id.trainer # trainer_id
    THEN [error |-> "NotFound", txn |-> "none", avail |-> avail]
    ELSE [error |-> "none", txn |-> "commit", avail |-> avail \ {availability_id}]

DeleteAvailability(trainer_id, availability_id) ==
    LET r == delete_availability(trainer_id, availability_id) IN
    /\ avail' = r.avail
    /\ Flush(r.txn)
    /\ UNCHANGED <<now, rooms, bookings, sessions, regs, calls>>

----------------------------------------------------------------------------
(* MemberService.book_personal_training_session.  `table` is the sessions  *)
(* table as the queries of the call see it.                                *)

NewSession(member_id, trainer_id, scheduled_time, duration_minutes, room_id, notes) ==
    [member |-> member_id, trainer |-> trainer_id, room |-> room_id,
     time |-> scheduled_time, dur |-> duration_minutes, notes |-> notes,
     status |-> "scheduled"]

trainer_available(trainer_id, scheduled_time, end_time) ==
    \E w \in avail :
        /\ w.trainer = trainer_id
        /\ w.day = WeekdayOf(scheduled_time)
        /\ w.start <= TimeOf(scheduled_time)
        /\ w.end >= TimeOf(end_time)

trainer_conflict_AnyStatus(table, trainer_id, scheduled_time, end_time) ==
    \E i \in DOMAIN table :
        /\ table[i].trainer = trainer_id
        /\ table[i].time < end_time
        /\ table[i].time >= scheduled_time

trainer_conflict(table, trainer_id, scheduled_time, end_time) ==
    \E i \in DOMAIN table :
        /\ table[i].trainer = trainer_id
        /\ table[i].status = "scheduled"
        /\ table[i].time < end_time
        /\ table[i].time >= scheduled_time

member_session_conflict(table, member_id, scheduled_time, end_time) ==
    \E i \in DOMAIN table :
        /\ table[i].member = member_id
        /\ table[i].status = "scheduled"
        /\ table[i].time < end_time
        /\ table[i].time >= scheduled_time

room_conflict(room_id, scheduled_time, end_time) ==
    \E i \in DOMAIN bookings :
        /\ bookings[i].room = room_id
        /\ bookings[i].date = DateOf(scheduled_time)
        /\ bookings[i].status = "confirmed"
        /\ bookings[i].start < TimeOf(end_time)
        /\ bookings[i].end > TimeOf(scheduled_time)

(* "IntegrityError": the insert violates the foreign key of room_id; the   *)
(* call rolls back and returns the failure.                                *)
book_session_error(table, member_id, trainer_id, scheduled_time, duration_minutes, room_id) ==
    LET end_time == scheduled_time + duration_minutes IN
    IF member_id \notin Members THEN "NotFound"
    ELSE IF trainer_id \notin Trainers THEN "NotFound"
    ELSE IF scheduled_time <= now THEN "PastSchedule"
    ELSE IF ~ trainer_available(trainer_id, scheduled_time, end_time)
         THEN "TrainerUnavailable"
    ELSE IF trainer_conflict(table, trainer_id, scheduled_time, end_time)
         THEN "TrainerConflict"
    ELSE IF member_session_conflict(table, member_id, scheduled_time, end_time)
         THEN "MemberConflict"
    ELSE IF room_id # NoRoom /\ room_conflict(room_id, scheduled_time, end_time)
         THEN "RoomConflict"
    ELSE IF room_id # NoRoom /\ room_id \notin DOMAIN rooms THEN "IntegrityError"
    ELSE "none"

book_personal_training_session(table, member_id, trainer_id, scheduled_time, duration_minutes, room_id, notes) ==
    LET err == book_session_error(table, member_id, trainer_id, scheduled_time,
                                  duration_minutes, room_id)
    IN
    IF err = "none"
    THEN [error |-> err, txn |-> "commit", session_id |-> Len(sessions) + 1,
          row |-> <<NewSession(member_id, trainer_id, scheduled_time,
                               duration_minutes, room_id, notes)>>]
    ELSE [error |-> err, txn |-> IF err = "IntegrityError" THEN "rollback" ELSE "none",
          session_id |-> 0, row |-> <<>>]

BookSession(member_id, trainer_id, scheduled_time, duration_minutes, room_id, notes) ==
    LET r == book_personal_training_session(sessions, member_id, trainer_id,
                    scheduled_time, duration_minutes, room_id, notes)
    IN
    /\ Len(sessions) < MaxSessions
    /\ sessions' = sessions \o r.row
    /\ Flush(r.txn)
    /\ UNCHANGED <<now, rooms, bookings, avail, regs, calls>>

(* MemberService.cancel_pt_session *)

cancel_pt_session_PastFirst(member_id, session_id) ==
    LET err ==
        IF session_id \notin DOMAIN sessions THEN "NotFound"
        ELSE IF sessions[session_id].member # member_id THEN "NotFound"
        ELSE IF sessions[session_id].time <= now THEN "PastSession"
        ELSE IF sessions[session_id].status = "cancelled" THEN "AlreadyCancelled"
        ELSE IF sessions[session_id].status = "completed" THEN "AlreadyCompleted"
        ELSE "none"
    IN
    IF err = "none"
    THEN [error |-> err, txn |-> "commit",
          sessions |-> [sessions EXCEPT ![session_id].status = "cancelled"]]
    ELSE [error |-> err, txn |-> "none", sessions |-> sessions]

cancel_pt_session(member_id, session_id) ==
    LET err ==
        IF session_id \notin DOMAIN sessions THEN "NotFound"
        ELSE IF sessions[session_id].member # member_id THEN "NotFound"
        ELSE IF sessions[session_id].status = "cancelled" THEN "AlreadyCancelled"
        ELSE IF sessions[session_id].status = "completed" THEN "AlreadyCompleted"
        ELSE IF sessions[session_id].time <= now THEN "PastSession"
        ELSE "none"
    IN
    IF err = "none"
    THEN [error |-> err, txn |-> "commit",
          sessions |-> [sessions EXCEPT ![session_id].status = "cancelled"]]
    ELSE [error |-> err, txn |-> "none", sessions |-> sessions]

CancelSession(member_id, session_id) ==
    LET r == cancel_pt_session(member_id, session_id) IN
    /\ sessions' = r.sessions
    /\ Flush(r.txn)
    /\ UNCHANGED <<now, rooms, bookings, avail, regs, calls>>

(* MemberService.reschedule_pt_session.  The session is made with          *)
(* autoflush off: the status assigned to old_session stays in the identity *)
(* map, and the queries of the booking read the table as committed.        *)

autoflush == FALSE

reschedule_NoRollback(member_id, session_id, new_time) ==
    IF session_id \notin DOMAIN sessions \/
       (session_id \in DOMAIN sessions /\ sessions[session_id].member # member_id)
    THEN [error |-> "NotFound", txn |-> "none", sessions |-> sessions]
    ELSE IF sessions[session_id].status # "scheduled"
    THEN [error |-> "NotScheduled", txn |-> "none", sessions |-> sessions]
    ELSE
        LET old_session == sessions[session_id]
            dirty == [sessions EXCEPT ![session_id].status = "cancelled"]
            result == book_personal_training_session(
                          IF autoflush THEN dirty ELSE sessions,
                          member_id, old_session.trainer, new_time,
                          old_session.dur, old_session.room, old_session.notes)
        IN
        IF result.error = "none"
        THEN [error |-> "none", txn |-> "commit", sessions |-> dirty \o result.row]
        ELSE [error |-> result.error, txn |-> "commit", sessions |-> dirty]

reschedule_pt_session(member_id, session_id, new_time) ==
    IF session_id \notin DOMAIN sessions \/
       (session_id \in DOMAIN sessions /\ sessions[session_id].member # member_id)
    THEN [error |-> "NotFound", txn |-> "none", sessions |-> sessions]
    ELSE IF sessions[session_id].status # "scheduled"
    THEN [error |-> "NotScheduled", txn |-> "none", sessions |-> sessions]
    ELSE
        LET old_session == sessions[session_id]
            dirty == [sessions EXCEPT ![session_id].status = "cancelled"]
            result == book_personal_training_session(
                          IF autoflush THEN dirty ELSE sessions,
                          member_id, old_session.trainer, new_time,
                          old_session.dur, old_session.room, old_session.notes)
        IN
        IF result.error = "none"
        THEN [error |-> "none", txn |-> "commit", sessions |-> dirty \o result.row]
        ELSE [error |-> result.error, txn |-> "rollback", sessions |-> sessions]

RescheduleSession(member_id, session_id, new_time) ==
    LET r == reschedule_pt_session(member_id, session_id, new_time) IN
    /\ Len(sessions) < MaxSessions
    /\ sessions' = r.sessions
    /\ Flush(r.txn)
    /\ UNCHANGED <<now, rooms, bookings, avail, regs, calls>>

----------------------------------------------------------------------------
(* AdminService.update_class.  kwargs is the sequence of <<field, value>>  *)
(* pairs of the call, in the order given.  The fields are assigned to the  *)
(* loaded object one by one; a rejected value returns at once, with no     *)
(* rollback of the fields assigned before it.                              *)

ClassStatus == {"scheduled", "in_progress", "completed", "cancelled"}
allowed_fields ==
    {"name", "description", "scheduled_time", "duration_minutes", "capacity", "status"}

(* name and description are not part of the modelled row *)
setattr(obj, field, value) ==
    IF field \in {"name", "description"} THEN obj
    ELSE IF field = "scheduled_time" THEN [obj EXCEPT !.time = value]
    ELSE IF field = "duration_minutes" THEN [obj EXCEPT !.dur = value]
    ELSE IF field = "capacity" THEN [obj EXCEPT !.cap = value]
    ELSE [obj EXCEPT !.status = value]

RECURSIVE update_fields(_, _)
update_fields(obj, kwargs) ==
    IF kwargs = <<>> THEN [error |-> "none", obj |-> obj]
    ELSE LET field == Head(kwargs)[1]
             value == Head(kwargs)[2]
         IN
         IF field \notin allowed_fields THEN update_fields(obj, Tail(kwargs))
         ELSE IF field = "status" /\ value \notin ClassStatus
              THEN [error |-> "InvalidStatus", obj |-> obj]
         ELSE IF field = "capacity" /\ value # 0 /\ value > rooms[obj.room]
              THEN [error |-> "CapacityExceeded", obj |-> obj]
         ELSE update_fields(setattr(obj, field, value), Tail(kwargs))

update_class(class_id, kwargs) ==
    IF class_id \notin DOMAIN classes
    THEN [error |-> "NotFound", txn |-> "none", loaded |-> loaded]
    ELSE LET r == update_fields(loaded[class_id], kwargs) IN
         [error |-> r.error,
          txn |-> IF r.error = "none" THEN "commit" ELSE "none",
          loaded |-> [loaded EXCEPT ![class_id] = r.obj]]

UpdateClass(class_id, kwargs) ==
    LET r == update_class(class_id, kwargs) IN
    /\ loaded' = r.loaded
    /\ classes' = IF r.txn = "commit" THEN r.loaded ELSE classes
    /\ UNCHANGED <<now, rooms, bookings, avail, sessions, regs, calls>>

(* AdminService.cancel_class *)

cancel_class_ResetCapacity(class_id) ==
    IF class_id \notin DOMAIN classes
    THEN [error |-> "NotFound", txn |-> "none", loaded |-> loaded]
    ELSE [error |-> "none", txn |-> "commit",
          loaded |-> [loaded EXCEPT ![class_id].status = "cancelled",
                                    ![class_id].cap = 0]]

cancel_class(class_id) ==
    IF class_id \notin DOMAIN classes
    THEN [error |-> "NotFound", txn |-> "none", loaded |-> loaded]
    ELSE [error |-> "none", txn |-> "commit",
          loaded |-> [loaded EXCEPT ![class_id].status = "cancelled"]]

CancelClass(class_id) ==
    LET r == cancel_class(class_id) IN
    /\ loaded' = r.loaded
    /\ classes' = IF r.txn = "commit" THEN r.loaded ELSE classes
    /\ UNCHANGED <<now, rooms, bookings, avail, sessions, regs, calls>>

----------------------------------------------------------------------------
(* MemberService.register_for_class.  The class is read through its loaded *)
(* object; the registrations and sessions are read by queries.             *)
(* uq_member_class_registration allows one row per (member, class), of any *)
(* status: an insert of a second one raises IntegrityError, which the call *)
(* reports as "already registered".                                        *)

uq_member_class_registration_Absent(member_id, class_id) == member_id = member_id /\ class_id = class_id

uq_member_class_registration(member_id, class_id) ==
    ~ \E i \in DOMAIN regs : regs[i].member = member_id /\ regs[i].class = class_id

registered_count(class_id) ==
    Cardinality({i \in DOMAIN regs :
                    regs[i].class = class_id /\ regs[i].status = "registered"})

register_error_OverCapacity(member_id, class_id) ==
    IF member_id \notin Members THEN "NotFound"
    ELSE IF class_id \notin DOMAIN classes THEN "NotFound"
    ELSE IF loaded[class_id].status # "scheduled" THEN "NotScheduled"
    ELSE IF loaded[class_id].time <= now THEN "PastClass"
    ELSE IF \E i \in DOMAIN regs :
                /\ regs[i].member = member_id
                /\ regs[i].class = class_id
                /\ regs[i].status \in {"registered", "attended"}
         THEN "AlreadyRegistered"
    ELSE IF registered_count(class_id) > loaded[class_id].cap THEN "ClassFull"
    ELSE IF member_session_conflict(sessions, member_id, loaded[class_id].time,
                                    loaded[class_id].time + loaded[class_id].dur)
         THEN "SessionConflict"
    ELSE IF ~ uq_member_class_registration(member_id, class_id) THEN "IntegrityError"
    ELSE "none"

register_error(member_id, class_id) ==
    IF member_id \notin Members THEN "NotFound"
    ELSE IF class_id \notin DOMAIN classes THEN "NotFound"
    ELSE IF loaded[class_id].status # "scheduled" THEN "NotScheduled"
    ELSE IF loaded[class_id].time <= now THEN "PastClass"
    ELSE IF \E i \in DOMAIN regs :
                /\ regs[i].member = member_id
                /\ regs[i].class = class_id
                /\ regs[i].status \in {"registered", "attended"}
         THEN "AlreadyRegistered"
    ELSE IF registered_count(class_id) >= loaded[class_id].cap THEN "ClassFull"
    ELSE IF member_session_conflict(sessions, member_id, loaded[class_id].time,
                                    loaded[class_id].time + loaded[class_id].dur)
         THEN "SessionConflict"
    ELSE IF ~ uq_member_class_registration(member_id, class_id) THEN "IntegrityError"
    ELSE "none"

register_for_class(member_id, class_id) ==
    LET err == register_error(member_id, class_id) IN
    IF err = "none"
    THEN [error |-> err, txn |-> "commit",
          regs |-> Append(regs, [member |-> member_id, class |-> class_id,
                                 status |-> "registered"])]
    ELSE IF err = "IntegrityError"
    THEN [error |-> "AlreadyRegistered", txn |-> "rollback", regs |-> regs]
    ELSE [error |-> err, txn |-> "none", regs |-> regs]

RegisterForClass(member_id, class_id) ==
    LET r == register_for_class(member_id, class_id) IN
    /\ Len(regs) < MaxRegs
    /\ regs' = r.regs
    /\ Flush(r.txn)
    /\ UNCHANGED <<now, rooms, bookings, avail, sessions, calls>>

(* MemberService.cancel_class_registration *)

cancel_class_registration(member_id, registration_id) ==
    LET err ==
        IF registration_id \notin DOMAIN regs THEN "NotFound"
        ELSE IF regs[registration_id].member # member_id THEN "NotFound"
        ELSE IF regs[registration_id].status = "cancelled" THEN "AlreadyCancelled"
        ELSE IF regs[registration_id].status = "attended" THEN "AttendedClass"
        ELSE IF loaded[regs[registration_id].class].time <= now THEN "ClassStarted"
        ELSE "none"
    IN
    IF err = "none"
    THEN [error |-> err, txn |-> "commit",
          regs |-> [regs EXCEPT ![registration_id].status = "cancelled"]]
    ELSE [error |-> err, txn |-> "none", regs |-> regs]

CancelClassRegistration(member_id, registration_id) ==
    LET r == cancel_class_registration(member_id, registration_id) IN
    /\ regs' = r.regs
    /\ Flush(r.txn)
    /\ UNCHANGED <<now, rooms, bookings, avail, sessions, calls>>

----------------------------------------------------------------------------
(* Calls of client processes that run the program at the same time, each   *)
(* with a session and a transaction of its own on the one database.  A     *)
(* call is two steps: the reads of its validation, then session.add and    *)
(* session.commit; a read sees the rows committed so far.                  *)

Clients == {1, 2}

Idle == [pc |-> "idle", args |-> <<>>, error |-> "none", at |-> "none"]

InFlight(op) == Cardinality({p \in Clients : calls[p].pc = op})

(* AdminService.book_room: validation and conflict query *)
BookRoomCheck(p, room_id, booking_date, start_time, end_time) ==
    LET err == book_room_error(room_id, booking_date, start_time, end_time) IN
    /\ calls[p].pc = "idle"
    /\ Len(bookings) + InFlight("book_room") < MaxBookings
    /\ calls' = [calls EXCEPT ![p] =
                    [pc |-> IF err = "none" THEN "book_room" ELSE "returned",
                     args |-> <<room_id, booking_date, start_time, end_time>>,
                     error |-> err, at |-> "check"]]
    /\ UNCHANGED <<now, rooms, bookings, avail, classes, loaded, sessions, regs>>

(* AdminService.book_room: session.add(new_booking); session.commit().     *)
(* room_bookings has no constraint that an insert could violate.           *)
BookRoomCommit(p) ==
    /\ calls[p].pc = "book_room"
    /\ bookings' = Append(bookings,
                          NewBooking(calls[p].args[1], calls[p].args[2],
                                     calls[p].args[3], calls[p].args[4]))
    /\ calls' = [calls EXCEPT ![p].pc = "returned", ![p].at = "commit"]
    /\ UNCHANGED <<now, rooms, avail, classes, loaded, sessions, regs>>

(* MemberService.register_for_class: validation queries *)
RegisterCheck(p, member_id, class_id) ==
    LET err == register_error(member_id, class_id)
        passed == err \in {"none", "IntegrityError"}
    IN
    /\ calls[p].pc = "idle"
    /\ Len(regs) + InFlight("register_for_class") < MaxRegs
    /\ calls' = [calls EXCEPT ![p] =
                    [pc |-> IF passed THEN "register_for_class" ELSE "returned",
                     args |-> <<member_id, class_id>>,
                     error |-> IF passed THEN "none" ELSE err, at |-> "check"]]
    /\ UNCHANGED <<now, rooms, bookings, avail, classes, loaded, sessions, regs>>

(* MemberService.register_for_class: session.add(registration);            *)
(* session.commit(), and the except IntegrityError branch                  *)
RegisterCommit(p) ==
    LET member_id == calls[p].args[1]
        class_id == calls[p].args[2]
    IN
    /\ calls[p].pc = "register_for_class"
    /\ IF uq_member_class_registration(member_id, class_id)
       THEN /\ regs' = Append(regs, [member |-> member_id, class |-> class_id,
                                     status |-> "registered"])
            /\ calls' = [calls EXCEPT ![p].pc = "returned", ![p].at = "commit"]
       ELSE /\ regs' = regs
            /\ calls' = [calls EXCEPT ![p].pc = "returned", ![p].at = "commit",
                                      ![p].error = "AlreadyRegistered"]
    /\ UNCHANGED <<now, rooms, bookings, avail, classes, loaded, sessions>>

(* The call returns to the menu of its client *)
Return(p) ==
    /\ calls[p].pc = "returned"
    /\ calls' = [calls EXCEPT ![p] = Idle]
    /\ UNCHANGED <<now, rooms, bookings, avail, classes, loaded, sessions, regs>>

----------------------------------------------------------------------------
(* The clock *)

Tick ==
    /\ now < MaxNow
    /\ now' = now + 1
    /\ UNCHANGED <<rooms, bookings, avail, classes, loaded, sessions, regs, calls>>

----------------------------------------------------------------------------

Init ==
    /\ now = 0
    /\ rooms = <<2, 1>>
    /\ bookings = <<>>
    /\ avail = {}
    /\ classes = <<>>
    /\ loaded = <<>>
    /\ sessions = <<>>
    /\ regs = <<>>
    /\ calls = [p \in Clients |-> Idle]

(* Room bookings by the admin, classes of one trainer *)

NextRooms ==
    \/ \E r \in {1, 2, MissingId}, d \in Dates, s \in TimesOfDay, e \in TimesOfDay :
            BookRoom(r, d, s, e)
    \/ \E b \in 1 .. (MaxBookings + 1) : CancelRoomBooking(b)
    \/ \E r \in {1, 2}, st \in DateTimes, d \in Durations :
            CreateClass(1, r, st, d, NoCapacity)
    \/ Tick

SpecRooms == Init /\ [][NextRooms]_vars

(* Personal-training sessions of member 1 with two trainers, who are       *)
(* available tomorrow; member 2 owns no session                            *)

NextSessions ==
    \/ \E t \in {1, 2, MissingId}, d \in {1, InvalidDay}, s \in TimesOfDay, e \in TimesOfDay :
            SetAvailability(t, d, s, e)
    \/ \E t \in {1, 2, MissingId}, st \in DateTimes, d \in {1, 2} :
            BookSession(1, t, st, d, NoRoom, "notes")
    \/ \E m \in Members, i \in 1 .. (MaxSessions + 1) : CancelSession(m, i)
    \/ \E m \in Members, i \in 1 .. (MaxSessions + 1), st \in DateTimes :
            RescheduleSession(m, i, st)

SpecSessions == Init /\ [][NextSessions]_vars

(* Sessions of member 1 in room 1, next to the admin's bookings of that    *)
(* room and the classes held in it                                         *)

NextSessionRooms ==
    \/ \E e \in TimesOfDay : SetAvailability(1, 1, 0, e)
    \/ \E st \in DateTimes, d \in {1, 2}, r \in {NoRoom, 1} :
            BookSession(1, 1, st, d, r, "notes")
    \/ \E i \in 1 .. MaxSessions : CancelSession(1, i)
    \/ \E s \in TimesOfDay, e \in TimesOfDay : BookRoom(1, 1, s, e)
    \/ \E b \in 1 .. MaxBookings : CancelRoomBooking(b)
    \/ \E st \in DateTimes : CreateClass(2, 1, st, 1, NoCapacity)

SpecSessionRooms == Init /\ [][NextSessionRooms]_vars

(* Registrations of two members for classes of trainer 1 in room 1, whose  *)
(* capacity the admin updates                                              *)

UpdateKwargs ==
    { << <<"capacity", 1>> >>,
      << <<"capacity", 3>> >>,
      << <<"name", "n">>, <<"capacity", 1>>, <<"status", "bogus">> >> }

NextRegistrations ==
    \/ \E st \in DateTimes, c \in {NoCapacity, 1, 3} : CreateClass(1, 1, st, 1, c)
    \/ \E c \in 1 .. (MaxClasses + 1), kw \in UpdateKwargs : UpdateClass(c, kw)
    \/ \E m \in Members \cup {MissingId}, c \in 1 .. (MaxClasses + 1) :
            RegisterForClass(m, c)
    \/ \E m \in Members, i \in 1 .. (MaxRegs + 1) : CancelClassRegistration(m, i)
    \/ Tick

SpecRegistrations == Init /\ [][NextRegistrations]_vars

(* Cancellations of the sessions of member 1 with trainer 1 today and of   *)
(* the registrations of two members for the first class of today, while    *)
(* the clock advances                                                      *)

NextCancel ==
    \/ \E e \in TimesOfDay : SetAvailability(1, 0, 0, e)
    \/ \E st \in DateTimes : BookSession(1, 1, st, 1, NoRoom, "notes")
    \/ \E m \in Members \cup {MissingId}, i \in 1 .. (MaxSessions + 1) : CancelSession(m, i)
    \/ \E st \in {1, 2} : CreateClass(2, 1, st, 1, NoCapacity)
    \/ \E m \in Members : RegisterForClass(m, 1)
    \/ \E m \in Members \cup {MissingId}, i \in 1 .. (MaxRegs + 1) :
            CancelClassRegistration(m, i)
    \/ Tick

SpecCancel == Init /\ [][NextCancel]_vars

(* Two admin clients book room 1 for today and tomorrow at the same time   *)

NextConcurrentRooms ==
    \/ \E p \in Clients, r \in {1, MissingId}, d \in {0, 1}, s \in TimesOfDay, e \in TimesOfDay :
            BookRoomCheck(p, r, d, s, e)
    \/ \E p \in Clients : BookRoomCommit(p)
    \/ \E p \in Clients : Return(p)
    \/ \E b \in 1 .. MaxBookings : CancelRoomBooking(b)

SpecConcurrentRooms == Init /\ [][NextConcurrentRooms]_vars

(* Two clients register the two members for the classes of room 1 at the   *)
(* same time                                                               *)

NextConcurrentRegistrations ==
    \/ \E st \in {1, 2} : CreateClass(1, 1, st, 1, NoCapacity)
    \/ \E p \in Clients, m \in Members, c \in 1 .. MaxClasses : RegisterCheck(p, m, c)
    \/ \E p \in Clients : RegisterCommit(p)
    \/ \E p \in Clients : Return(p)
    \/ \E m \in Members, i \in 1 .. MaxRegs : CancelClassRegistration(m, i)

SpecConcurrentRegistrations == Init /\ [][NextConcurrentRegistrations]_vars

(* Availability windows of two trainers on three weekdays *)

Slots ==
    {NewSlot(t, d, s, e) : t \in Trainers, d \in {0, 1, 2},
                           s \in TimesOfDay, e \in TimesOfDay}

NextAvailability ==
    \/ \E t \in Trainers \cup {MissingId}, d \in {0, 1, 2, InvalidDay},
          s \in TimesOfDay, e \in TimesOfDay : SetAvailability(t, d, s, e)
    \/ \E t \in Trainers, w \in Slots : DeleteAvailability(t, w)

SpecAvailability == Init /\ [][NextAvailability]_vars

(* Bookings of room 1 for yesterday, today and tomorrow, made and          *)
(* cancelled by the admin                                                  *)

NextBookings ==
    \/ \E r \in {1, MissingId}, d \in Dates, s \in TimesOfDay, e \in TimesOfDay :
            BookRoom(r, d, s, e)
    \/ \E b \in 1 .. MaxBookings : CancelRoomBooking(b)

SpecBookings == Init /\ [][NextBookings]_vars

(* Classes of trainer 1 in room 1, created, updated and cancelled by the   *)
(* admin                                                                   *)

NextClasses ==
    \/ \E st \in {0 - 1, 1, 2}, d \in {0, 1}, c \in {NoCapacity, 1, 3} :
            CreateClass(1, 1, st, d, c)
    \/ \E c \in 1 .. (MaxClasses + 1), kw \in UpdateKwargs : UpdateClass(c, kw)
    \/ \E c \in 1 .. MaxClasses : CancelClass(c)

SpecClasses == Init /\ [][NextClasses]_vars

(* Registrations of two members for classes in room 1, of capacity 2, and  *)
(* room 2, of capacity 1                                                   *)

NextCapacity ==
    \/ \E r \in DOMAIN rooms, st \in {1, 2} : CreateClass(1, r, st, 1, NoCapacity)
    \/ \E m \in Members, c \in 1 .. MaxClasses : RegisterForClass(m, c)
    \/ \E m \in Members, i \in 1 .. MaxRegs : CancelClassRegistration(m, i)
    \/ Tick

SpecCapacity == Init /\ [][NextCapacity]_vars

(* Sessions of two members with two trainers tomorrow, while room 1 is     *)
(* booked for tomorrow's first slot                                        *)

NextBookSession ==
    \/ \E t \in Trainers : SetAvailability(t, 1, 0, 2)
    \/ \E m \in Members, t \in Trainers, st \in {3, 4} :
            BookSession(m, t, st, 1, NoRoom, "notes")
    \/ \E m \in Members, i \in 1 .. MaxSessions : CancelSession(m, i)
    \/ BookRoom(1, 1, 0, 1)

SpecBookSession == Init /\ [][NextBookSession]_vars

(* Classes of trainer 1 in room 1 with their registrations, cancelled by   *)
(* the admin                                                               *)

NextCancelClass ==
    \/ \E st \in {1, 2, 3} : CreateClass(1, 1, st, 1, NoCapacity)
    \/ \E m \in Members, c \in 1 .. MaxClasses : RegisterForClass(m, c)
    \/ \E c \in 1 .. (MaxClasses + 1) : CancelClass(c)
    \/ \E b \in 1 .. MaxBookings : CancelRoomBooking(b)

SpecCancelClass == Init /\ [][NextCancelClass]_vars

(* Classes and sessions requested with a capacity or a duration of 0       *)

ZeroKwargs ==
    { << <<"capacity", 0>> >>, << <<"duration_minutes", 0>> >>, << <<"capacity", 1>> >> }

NextPositive ==
    \/ SetAvailability(1, 1, 0, 2)
    \/ \E st \in {3, 4}, d \in {0, 1} : BookSession(1, 1, st, d, NoRoom, "notes")
    \/ \E st \in {1, 3}, d \in {0, 1}, c \in {NoCapacity, 0, 1} :
            CreateClass(1, 1, st, d, c)
    \/ \E c \in 1 .. MaxClasses, kw \in ZeroKwargs : UpdateClass(c, kw)

SpecPositive == Init /\ [][NextPositive]_vars

----------------------------------------------------------------------------
(* Intervals *)

Overlap(s1, e1, s2, e2) == s1 < e2 /\ s2 < e1

Live(b) == bookings[b].status # "cancelled"

SameRoomAndDate(a, b) ==
    bookings[a].room = bookings[b].room /\ bookings[a].date = bookings[b].date

(* C1: no two distinct non-cancelled room bookings of one room on one date *)
(* satisfy A.start < B.end and B.start < A.end.                            *)
C1_NoDoubleBooking ==
    \A a, b \in DOMAIN bookings :
        (a # b /\ Live(a) /\ Live(b) /\ SameRoomAndDate(a, b))
            => ~ Overlap(bookings[a].start, bookings[a].end,
                         bookings[b].start, bookings[b].end)

(* Two live bookings of one room and date that touch, one of them made by  *)
(* create_class, the other by book_room after a booking was cancelled.     *)
C1_Witness ==
    /\ Len(classes) = 1
    /\ \E a, b \in DOMAIN bookings :
            /\ a # b /\ Live(a) /\ Live(b) /\ SameRoomAndDate(a, b)
            /\ bookings[a].end = bookings[b].start

(* C2: no two scheduled sessions that share a trainer have overlapping     *)
(* intervals [start, start + duration), and no two that share a member.    *)
SessionEnd(i) == sessions[i].time + sessions[i].dur

C2_NoSessionOverlap ==
    \A i, j \in DOMAIN sessions :
        (/\ i # j
         /\ sessions[i].status = "scheduled" /\ sessions[j].status = "scheduled"
         /\ (sessions[i].trainer = sessions[j].trainer
                \/ sessions[i].member = sessions[j].member))
            => ~ Overlap(sessions[i].time, SessionEnd(i), sessions[j].time, SessionEnd(j))

(* C5: reschedule_pt_session of a scheduled session of the member is all   *)
(* or nothing.  If the booking at the new time succeeds, the old session   *)
(* is cancelled and exactly one session is added: scheduled, at the new    *)
(* time, with the member, trainer, duration, room and notes of the old     *)
(* one.  If the booking fails, the sessions are as before, the old one     *)
(* still scheduled.                                                        *)
BookingSucceeds(i, new_time) ==
    book_session_error(sessions, sessions[i].member, sessions[i].trainer, new_time,
                       sessions[i].dur, sessions[i].room) = "none"

C5_RescheduleAllOrNothing ==
    \A i \in DOMAIN sessions, new_time \in DateTimes :
        sessions[i].status = "scheduled" =>
            LET r == reschedule_pt_session(sessions[i].member, i, new_time)
                n == Len(sessions)
            IN
            IF BookingSucceeds(i, new_time)
            THEN /\ r.error = "none"
                 /\ r.txn = "commit"
                 /\ Len(r.sessions) = n + 1
                 /\ r.sessions[i] = [sessions[i] EXCEPT !.status = "cancelled"]
                 /\ \A j \in DOMAIN sessions : j # i => r.sessions[j] = sessions[j]
                 /\ r.sessions[n + 1] = [sessions[i] EXCEPT !.time = new_time]
            ELSE /\ r.error # "none"
                 /\ r.txn # "commit"
                 /\ r.sessions = sessions

(* A session that was moved (its old row cancelled, the new one scheduled) *)
(* and for which a further reschedule would fail at one time and succeed   *)
(* at another.                                                             *)
C5_Witness ==
    \E i, j \in DOMAIN sessions :
        /\ i < j
        /\ sessions[i].status = "cancelled"
        /\ sessions[j] = [sessions[i] EXCEPT !.time = sessions[j].time,
                                             !.status = "scheduled"]
        /\ sessions[j].time # sessions[i].time
        /\ \E t1, t2 \in DateTimes :
              /\ BookingSucceeds(j, t1)
              /\ ~ BookingSucceeds(j, t2) /\ t2 > now

(* C7: book_personal_training_session fails with TrainerUnavailable unless *)
(* a window of the trainer on the weekday of the start has                 *)
(* window.start <= start and window.end >= start + duration.               *)
WindowContains(trainer_id, scheduled_time, duration_minutes) ==
    \E w \in avail :
        /\ w.trainer = trainer_id
        /\ w.day = WeekdayOf(scheduled_time)
        /\ w.start <= TimeOf(scheduled_time)
        /\ w.end >= TimeOf(scheduled_time) + duration_minutes

C7_TrainerUnavailable ==
    \A m \in Members, t \in Trainers, st \in DateTimes, d \in {1, 2} :
        st > now =>
            (book_session_error(sessions, m, t, st, d, NoRoom) = "TrainerUnavailable"
                <=> ~ WindowContains(t, st, d))

(* C3: once a member's registration for a class is cancelled, and the      *)
(* class is still scheduled, in the future and not full, register_for_class *)
(* by that member for that class succeeds and adds a registration of       *)
(* status registered.                                                      *)
C3_ReRegisterAfterCancel ==
    \A i \in DOMAIN regs :
        LET m == regs[i].member
            c == regs[i].class
            r == register_for_class(m, c)
        IN
        (/\ regs[i].status = "cancelled"
         /\ ~ \E j \in DOMAIN regs :
                regs[j].member = m /\ regs[j].class = c /\ regs[j].status # "cancelled"
         /\ loaded[c] = classes[c]
         /\ classes[c].status = "scheduled"
         /\ classes[c].time > now
         /\ registered_count(c) < classes[c].cap
         /\ ~ member_session_conflict(sessions, m, classes[c].time,
                                      classes[c].time + classes[c].dur))
            => /\ r.error = "none"
               /\ r.regs = Append(regs, [member |-> m, class |-> c, status |-> "registered"])

(* C4: for every class the number of its registrations with status         *)
(* registered is at most the class's capacity.                             *)
C4_RegisteredWithinCapacity ==
    \A c \in DOMAIN classes : registered_count(c) <= classes[c].cap

(* C8: no scheduled session that has a room overlaps a confirmed booking   *)
(* of that room on the session's date.                                     *)
C8_SessionRoomFree ==
    \A i \in DOMAIN sessions, b \in DOMAIN bookings :
        (/\ sessions[i].status = "scheduled"
         /\ sessions[i].room # NoRoom
         /\ bookings[b].status = "confirmed"
         /\ bookings[b].room = sessions[i].room
         /\ bookings[b].date = DateOf(sessions[i].time))
            => ~ Overlap(TimeOf(sessions[i].time),
                         TimeOf(sessions[i].time) + sessions[i].dur,
                         bookings[b].start, bookings[b].end)

(* C10: cancel_pt_session of a cancelled session and                       *)
(* cancel_class_registration of a cancelled registration report            *)
(* AlreadyCancelled and change nothing, whether or not the scheduled time  *)
(* has elapsed; for a wrong member or a missing id they report NotFound.   *)
C10_CancelCancelled ==
    /\ \A m \in Members \cup {MissingId}, i \in 1 .. (Len(sessions) + 1) :
          LET r == cancel_pt_session(m, i) IN
          IF i \notin DOMAIN sessions \/ sessions[i].member # m
          THEN r.error = "NotFound" /\ r.txn = "none" /\ r.sessions = sessions
          ELSE sessions[i].status = "cancelled"
                  => r.error = "AlreadyCancelled" /\ r.txn = "none" /\ r.sessions = sessions
    /\ \A m \in Members \cup {MissingId}, i \in 1 .. (Len(regs) + 1) :
          LET r == cancel_class_registration(m, i) IN
          IF i \notin DOMAIN regs \/ regs[i].member # m
          THEN r.error = "NotFound" /\ r.txn = "none" /\ r.regs = regs
          ELSE regs[i].status = "cancelled"
                  => r.error = "AlreadyCancelled" /\ r.txn = "none" /\ r.regs = regs

(* A cancelled session whose time has elapsed next to one whose time has   *)
(* not, and a cancelled registration for a class that has started.         *)
C10_Witness ==
    /\ \E i, j \in DOMAIN sessions :
          /\ sessions[i].status = "cancelled" /\ sessions[i].time <= now
          /\ sessions[j].status = "cancelled" /\ sessions[j].time > now
    /\ \E i \in DOMAIN regs :
          regs[i].status = "cancelled" /\ classes[regs[i].class].time <= now

(* C6: no two scheduled classes that share a trainer overlap in time, and  *)
(* no two that share a room.                                               *)
ClassEnd(c) == classes[c].time + classes[c].dur

C6_NoClassOverlap ==
    \A c, d \in DOMAIN classes :
        (/\ c # d
         /\ classes[c].status = "scheduled" /\ classes[d].status = "scheduled"
         /\ (classes[c].trainer = classes[d].trainer \/ classes[c].room = classes[d].room))
            => ~ Overlap(classes[c].time, ClassEnd(c), classes[d].time, ClassEnd(d))

(* C9: cancelling a room booking that is already cancelled reports         *)
(* AlreadyCancelled and changes nothing.                                   *)
C9_CancelCancelledBooking ==
    \A b \in DOMAIN bookings :
        bookings[b].status = "cancelled"
            => /\ cancel_room_booking(b).error = "AlreadyCancelled"
               /\ cancel_room_booking(b).bookings = bookings

(* C11: when two book_room requests for overlapping windows of the same    *)
(* room and date run at the same time, each as a conflict-check read       *)
(* followed by a write, at most one of them is persisted as a              *)
(* non-cancelled booking, under every interleaving.                        *)
C11_ConcurrentNoDoubleBooking ==
    \A p \in Clients : \A q \in Clients :
        (/\ p # q
         /\ calls[p].pc = "returned" /\ calls[p].at = "commit"
         /\ calls[q].pc = "returned" /\ calls[q].at = "commit"
         /\ calls[p].args[1] = calls[q].args[1]
         /\ calls[p].args[2] = calls[q].args[2]
         /\ Overlap(calls[p].args[3], calls[p].args[4],
                    calls[q].args[3], calls[q].args[4]))
            => Cardinality({i \in DOMAIN bookings :
                    /\ Live(i)
                    /\ bookings[i].room = calls[p].args[1]
                    /\ bookings[i].date = calls[p].args[2]
                    /\ Overlap(bookings[i].start, bookings[i].end,
                               calls[p].args[3], calls[p].args[4])}) <= 1

(* C12: under every interleaving of register_for_class calls of several    *)
(* clients for the same member and class, at most one registration row of  *)
(* the pair is persisted, and every other call returns the                 *)
(* AlreadyRegistered failure.                                              *)
C12_ConcurrentRegisterOnce ==
    /\ \A m \in Members : \A c \in DOMAIN classes :
            Cardinality({i \in DOMAIN regs :
                            regs[i].member = m /\ regs[i].class = c}) <= 1
    /\ \A p \in Clients : \A q \in Clients :
            (/\ p # q
             /\ calls[p].pc = "returned" /\ calls[p].at = "commit"
             /\ calls[q].pc = "returned" /\ calls[q].at = "commit"
             /\ calls[p].args = calls[q].args)
                => \/ calls[p].error = "none" /\ calls[q].error = "AlreadyRegistered"
                   \/ calls[q].error = "none" /\ calls[p].error = "AlreadyRegistered"
                   \/ calls[q].error = "AlreadyRegistered"
                        /\ calls[p].error = "AlreadyRegistered"

(* Both calls passed their validation, one inserted the row and the other  *)
(* ran into the uniqueness constraint.                                     *)
C12_Witness ==
    \E p \in Clients : \E q \in Clients :
        /\ p # q
        /\ calls[p].pc = "returned" /\ calls[p].at = "commit"
        /\ calls[q].pc = "returned" /\ calls[q].at = "commit"
        /\ calls[p].args = calls[q].args
        /\ calls[p].error = "none" /\ calls[q].error = "AlreadyRegistered"
        /\ Cardinality({i \in DOMAIN regs :
                            regs[i].member = calls[p].args[1]
                            /\ regs[i].class = calls[p].args[2]}) = 1

(* C13: after any sequence of set_availability and delete_availability     *)
(* calls no two windows of one trainer on one weekday overlap (half-open   *)
(* test); a window identical to an existing one is rejected, and a window  *)
(* that only touches an existing one at an endpoint is accepted.           *)
C13_NoWindowOverlap ==
    /\ \A a \in avail : \A b \in avail :
            (a # b /\ a.trainer = b.trainer /\ a.day = b.day)
                => ~ Overlap(a.start, a.end, b.start, b.end)
    /\ \A w \in avail :
            /\ set_availability(w.trainer, w.day, w.start, w.end).error
                    \in {"Overlap", "Duplicate"}
            /\ set_availability(w.trainer, w.day, w.start, w.end).avail = avail
    /\ \A w \in avail : \A e \in TimesOfDay :
            (/\ w.end < e
             /\ \A o \in avail :
                    (o.trainer = w.trainer /\ o.day = w.day)
                        => ~ Overlap(w.end, e, o.start, o.end))
                => /\ set_availability(w.trainer, w.day, w.end, e).error = "none"
                   /\ NewSlot(w.trainer, w.day, w.end, e)
                        \in set_availability(w.trainer, w.day, w.end, e).avail

(* Two windows of one trainer and weekday that touch at an endpoint, both  *)
(* accepted, while the window spanning them is rejected.                   *)
C13_Witness ==
    \E a \in avail : \E b \in avail :
        /\ a.trainer = b.trainer /\ a.day = b.day
        /\ a.end = b.start
        /\ set_availability(a.trainer, a.day, a.start, b.end).error = "Overlap"

(* C14: conflicts_with(a, b) is true exactly when a and b have the same    *)
(* room and date, neither is cancelled, and a.start < b.end and            *)
(* b.start < a.end; it is symmetric, and bookings that touch at an         *)
(* endpoint do not conflict.  is_room_available(room, date, s, e) is false *)
(* exactly when a non-cancelled booking of the room and date conflicts     *)
(* with [s, e) under the same test.                                        *)
C14_ConflictTest ==
    /\ \A a \in RoomBookings : \A b \in RoomBookings :
            /\ conflicts_with(a, b) <=>
                    (/\ a.room = b.room
                     /\ a.date = b.date
                     /\ a.status # "cancelled" /\ b.status # "cancelled"
                     /\ a.start < b.end /\ b.start < a.end)
            /\ conflicts_with(a, b) <=> conflicts_with(b, a)
            /\ a.end = b.start /\ a.start < a.end /\ b.start < b.end
                    => ~ conflicts_with(a, b)
    /\ \A r \in DOMAIN rooms : \A d \in {0, 1} :
       \A s \in TimesOfDay : \A e \in TimesOfDay :
            is_room_available(r, d, s, e) <=>
                ~ \E i \in DOMAIN bookings :
                    /\ bookings[i].status # "cancelled"
                    /\ conflicts_with(bookings[i],
                                      [room |-> r, date |-> d, start |-> s,
                                       end |-> e, status |-> "confirmed"])

(* A room with a cancelled booking and a later confirmed one that touches  *)
(* it: the window of the cancelled booking is available, the window of the *)
(* confirmed one is not.                                                   *)
C14_Witness ==
    \E i \in DOMAIN bookings : \E j \in DOMAIN bookings :
        /\ bookings[i].status = "cancelled" /\ bookings[j].status = "confirmed"
        /\ SameRoomAndDate(i, j)
        /\ bookings[i].end = bookings[j].start
        /\ is_room_available(bookings[i].room, bookings[i].date,
                             bookings[i].start, bookings[i].end)
        /\ ~ is_room_available(bookings[j].room, bookings[j].date,
                               bookings[j].start, bookings[j].end)
        /\ ~ conflicts_with(bookings[i], bookings[j])

(* C15: book_room reports the first applicable failure in the order        *)
(* NotFound (room absent), InvalidRange (start >= end), PastDate (date     *)
(* before today), Conflict (naming the start and end of an existing        *)
(* colliding booking); a failure adds no booking; otherwise exactly one    *)
(* new confirmed booking with the requested room, date, start and end is   *)
(* added.                                                                  *)
C15_BookRoomFailureOrder ==
    \A r \in {1, 2, MissingId} : \A d \in Dates :
    \A s \in TimesOfDay : \A e \in TimesOfDay :
        LET res == book_room(r, d, s, e)
            colliding == {i \in DOMAIN bookings :
                            /\ bookings[i].room = r /\ bookings[i].date = d
                            /\ bookings[i].status # "cancelled"
                            /\ Overlap(s, e, bookings[i].start, bookings[i].end)}
        IN
        /\ res.error =
                IF r \notin DOMAIN rooms THEN "NotFound"
                ELSE IF s >= e THEN "InvalidRange"
                ELSE IF d < Today THEN "PastDate"
                ELSE IF colliding # {} THEN "Conflict"
                ELSE "none"
        /\ res.error = "Conflict" =>
                /\ res.named # {}
                /\ \A w \in res.named : \E i \in colliding :
                        w = <<bookings[i].start, bookings[i].end>>
        /\ res.error # "none" => res.bookings = bookings
        /\ res.error = "none" =>
                res.bookings = bookings \o
                    << [room |-> r, date |-> d, start |-> s, end |-> e,
                        status |-> "confirmed"] >>

(* With slots 0-1 of a room booked, the window 0-2 is refused naming 0-1   *)
(* and the touching window 1-2 has been booked.                            *)
C15_Witness ==
    \E i \in DOMAIN bookings : \E j \in DOMAIN bookings :
        /\ i < j
        /\ Live(i) /\ Live(j) /\ SameRoomAndDate(i, j)
        /\ bookings[i].start = 0 /\ bookings[i].end = 1
        /\ bookings[j].start = 1 /\ bookings[j].end = 2
        /\ bookings[i].date >= Today
        /\ book_room(bookings[i].room, bookings[i].date, 0, 2).error = "Conflict"
        /\ <<0, 1>> \in book_room(bookings[i].room, bookings[i].date, 0, 2).named
        /\ book_room(bookings[i].room, Today - 1, 2, 1).error = "InvalidRange"

C17_CapacityWithinRoom ==
    /\ \A c \in DOMAIN classes :
            /\ classes[c].cap <= rooms[classes[c].room]
            /\ loaded[c].cap <= rooms[loaded[c].room]
    /\ \A r \in DOMAIN rooms : \A st \in DateTimes :
            LET omitted == create_class(1, r, st, 1, NoCapacity)
                above == create_class(1, r, st, 1, rooms[r] + 1)
            IN
            /\ omitted.error = "none"
                    => omitted.loaded[Len(omitted.loaded)].cap = rooms[r]
            /\ above.error = "CapacityExceeded"
            /\ above.loaded = loaded
    /\ \A c \in DOMAIN classes :
            LET above == update_class(c, << <<"capacity", rooms[loaded[c].room] + 1>> >>)
            IN
            /\ above.error = "CapacityExceeded"
            /\ above.loaded = loaded

(* Room 1 holds a class created without a capacity, which took the room's, *)
(* and a class of a smaller capacity; a capacity above the room's is       *)
(* refused to both.                                                        *)
C17_Witness ==
    \E c \in DOMAIN classes : \E k \in DOMAIN classes :
        /\ classes[c].room = 1 /\ classes[k].room = 1
        /\ classes[c].cap = rooms[1]
        /\ classes[k].cap < rooms[1]
        /\ update_class(k, << <<"capacity", 3>> >>).error = "CapacityExceeded"
        /\ create_class(1, 1, now + 1, 1, 3).error = "CapacityExceeded"

(* C18: create_class is atomic with its room booking: a successful call    *)
(* adds exactly one class and exactly one confirmed room booking for the   *)
(* class's room, on the class's date, from the scheduled start to start +  *)
(* duration; a failed call adds neither a class nor a booking.             *)
C18_ClassBookingAtomic ==
    [][/\ \A st \in DateTimes : \A d \in Durations : \A c \in {NoCapacity, 1, 3} :
            create_class(1, 1, st, d, c).error # "none"
                => /\ create_class(1, 1, st, d, c).loaded = loaded
                   /\ create_class(1, 1, st, d, c).bookings = bookings
       /\ Len(classes') # Len(classes)
            => /\ Len(classes') = Len(classes) + 1
               /\ Len(bookings') = Len(bookings) + 1
               /\ SubSeq(classes', 1, Len(classes)) = classes
               /\ SubSeq(bookings', 1, Len(bookings)) = bookings
               /\ LET class == classes'[Len(classes')]
                      booking == bookings'[Len(bookings')]
                  IN
                  /\ booking.status = "confirmed"
                  /\ booking.room = class.room
                  /\ booking.date = DateOf(class.time)
                  /\ booking.start = TimeOf(class.time)
                  /\ booking.end = TimeOf(class.time) + class.dur
      ]_vars

C20_FailureChangesNothing ==
    [][\A c \in DOMAIN classes :
            classes'[c] # classes[c]
                => \/ \E kw \in UpdateKwargs :
                        /\ update_fields(classes[c], kw).error = "none"
                        /\ classes'[c] = update_fields(classes[c], kw).obj
                   \/ classes'[c] = [classes[c] EXCEPT !.status = "cancelled"]
      ]_vars

C22_RegisterFailureOrder ==
    \A m \in Members \cup {MissingId} : \A c \in 1 .. (MaxClasses + 1) :
        LET res == register_for_class(m, c)
            expected ==
                IF m \notin Members \/ c \notin DOMAIN classes THEN "NotFound"
                ELSE IF classes[c].status # "scheduled" THEN "NotScheduled"
                ELSE IF classes[c].time <= now THEN "PastClass"
                ELSE IF \E i \in DOMAIN regs :
                            /\ regs[i].member = m /\ regs[i].class = c
                            /\ regs[i].status # "cancelled"
                     THEN "AlreadyRegistered"
                ELSE IF Cardinality({i \in DOMAIN regs :
                            regs[i].class = c /\ regs[i].status = "registered"})
                            >= classes[c].cap
                     THEN "ClassFull"
                ELSE IF \E i \in DOMAIN sessions :
                            /\ sessions[i].member = m
                            /\ sessions[i].status = "scheduled"
                            /\ classes[c].time <= sessions[i].time
                            /\ sessions[i].time < classes[c].time + classes[c].dur
                     THEN "SessionConflict"
                ELSE "none"
        IN
        /\ res.error = expected
        /\ res.error # "none" => res.regs = regs
        /\ res.error = "none" =>
                res.regs = regs \o << [member |-> m, class |-> c,
                                       status |-> "registered"] >>

(* C23: create_class fails with PastSchedule whenever scheduledTime is not *)
(* strictly later than the current time (a scheduledTime equal to now is   *)
(* rejected), and book_personal_training_session does the same; in both    *)
(* cases nothing is persisted.                                             *)
C23_NotStrictlyFuture ==
    \A st \in DateTimes :
        st <= now =>
            /\ \A r \in DOMAIN rooms :
                    /\ create_class(1, r, st, 1, NoCapacity).error = "PastSchedule"
                    /\ create_class(1, r, st, 1, NoCapacity).loaded = loaded
                    /\ create_class(1, r, st, 1, NoCapacity).bookings = bookings
            /\ \A m \in Members : \A t \in Trainers :
                    /\ book_personal_training_session(sessions, m, t, st, 1, NoRoom,
                                                      "notes").error = "PastSchedule"
                    /\ book_personal_training_session(sessions, m, t, st, 1, NoRoom,
                                                      "notes").row = <<>>

(* The windows of a trainer and weekday that collide with [s, e), and what *)
(* a set_availability call must leave behind                               *)
CollidingWindows(t, d, s, e) ==
    {w \in avail : w.trainer = t /\ w.day = d /\ Overlap(s, e, w.start, w.end)}

SetAvailabilityEffect(t, d, s, e) ==
    LET res == set_availability(t, d, s, e) IN
    /\ res.error = "Overlap" =>
            /\ res.named # {}
            /\ \A n \in res.named : \E w \in CollidingWindows(t, d, s, e) :
                    n = <<w.start, w.end>>
    /\ res.error # "none" => res.avail = avail
    /\ res.error = "none" =>
            /\ NewSlot(t, d, s, e) \notin avail
            /\ res.avail = avail \cup {NewSlot(t, d, s, e)}

(* C24, as stated: set_availability decides its failures in the order      *)
(* NotFound (trainer), InvalidRange (start >= end), InvalidDay             *)
(* (unrecognised weekday), Overlap (citing the start and end of the        *)
(* colliding existing window); a failure leaves the trainer's windows      *)
(* unchanged, otherwise exactly the requested window is added.             *)
C24_RangeBeforeDay ==
    \A t \in Trainers \cup {MissingId} : \A d \in {0, 1, 2, InvalidDay} :
    \A s \in TimesOfDay : \A e \in TimesOfDay :
        /\ set_availability(t, d, s, e).error =
                IF t \notin Trainers THEN "NotFound"
                ELSE IF s >= e THEN "InvalidRange"
                ELSE IF d \notin Weekdays THEN "InvalidDay"
                ELSE IF CollidingWindows(t, d, s, e) # {} THEN "Overlap"
                ELSE "none"
        /\ SetAvailabilityEffect(t, d, s, e)

(* C24, amended: the order is NotFound (trainer), InvalidDay, InvalidRange, *)
(* Overlap; the rest as stated.                                            *)
C24_DayBeforeRange ==
    \A t \in Trainers \cup {MissingId} : \A d \in {0, 1, 2, InvalidDay} :
    \A s \in TimesOfDay : \A e \in TimesOfDay :
        /\ set_availability(t, d, s, e).error =
                IF t \notin Trainers THEN "NotFound"
                ELSE IF d \notin Weekdays THEN "InvalidDay"
                ELSE IF s >= e THEN "InvalidRange"
                ELSE IF CollidingWindows(t, d, s, e) # {} THEN "Overlap"
                ELSE "none"
        /\ SetAvailabilityEffect(t, d, s, e)

(* A trainer has the window 0-1 of a weekday; the window 0-2 is refused    *)
(* naming it, and an unrecognised weekday with start after end is refused  *)
(* as InvalidDay.                                                          *)
C24_Witness ==
    \E w \in avail :
        /\ w.start = 0 /\ w.end = 1
        /\ set_availability(w.trainer, w.day, 0, 2).error = "Overlap"
        /\ set_availability(w.trainer, w.day, 0, 2).named = {<<0, 1>>}
        /\ set_availability(w.trainer, InvalidDay, 2, 1).error = "InvalidDay"

C26_PositiveCapacityAndDuration ==
    /\ \A r \in DOMAIN rooms : rooms[r] >= 1
    /\ \A c \in DOMAIN classes : classes[c].cap >= 1 /\ classes[c].dur >= 1
    /\ \A i \in DOMAIN sessions : sessions[i].dur >= 1
    /\ \A st \in DateTimes :
            /\ create_class(1, 1, st, 1, 0).error = "InvalidRange"
            /\ create_class(1, 1, st, 0, NoCapacity).error = "InvalidRange"
            /\ book_personal_training_session(sessions, 1, 1, st, 0, NoRoom,
                                              "notes").error # "none"

(* C27: after any sequence of create_class, update_class, cancel_class,    *)
(* book_room and cancel_room_booking calls, every class of status          *)
(* scheduled has a non-cancelled room booking for its room on its date     *)
(* whose start and end equal the class's scheduled start and start +       *)
(* duration.                                                               *)
C27_ScheduledClassHasBooking ==
    \A c \in DOMAIN classes :
        classes[c].status = "scheduled"
            => \E b \in DOMAIN bookings :
                    /\ bookings[b].status # "cancelled"
                    /\ bookings[b].room = classes[c].room
                    /\ bookings[b].date = DateOf(classes[c].time)
                    /\ bookings[b].start = TimeOf(classes[c].time)
                    /\ bookings[b].end = TimeOf(classes[c].time) + classes[c].dur

(* C28: every persisted room booking satisfies start_time < end_time,      *)
(* whether it was created by book_room or derived by create_class from a   *)
(* scheduled start and a positive duration.                                *)
C28_BookingStartBeforeEnd ==
    \A b \in DOMAIN bookings : bookings[b].start < bookings[b].end

(* C29: no member holds at the same time a registration of status          *)
(* registered for a scheduled class and a scheduled session whose          *)
(* intervals [start, start + duration) overlap.                            *)
C29_NoClassSessionOverlap ==
    \A i \in DOMAIN regs : \A j \in DOMAIN sessions :
        (/\ regs[i].status = "registered"
         /\ classes[regs[i].class].status = "scheduled"
         /\ sessions[j].status = "scheduled"
         /\ sessions[j].member = regs[i].member)
            => ~ Overlap(classes[regs[i].class].time, ClassEnd(regs[i].class),
                         sessions[j].time, SessionEnd(j))

(* C30: reschedule_pt_session does not count the session being moved as a  *)
(* conflict: when the only scheduled session of the trainer or member      *)
(* whose start lies in [newTime, newTime + duration) is the session being  *)
(* moved, and all other checks pass, the reschedule succeeds.              *)
C30_RescheduleIgnoresMovedSession ==
    \A i \in DOMAIN sessions : \A new_time \in DateTimes :
        (/\ sessions[i].status = "scheduled"
         /\ new_time > now
         /\ trainer_available(sessions[i].trainer, new_time, new_time + sessions[i].dur)
         /\ sessions[i].room = NoRoom
         /\ \A j \in DOMAIN sessions :
                (/\ j # i
                 /\ sessions[j].status = "scheduled"
                 /\ (sessions[j].trainer = sessions[i].trainer
                        \/ sessions[j].member = sessions[i].member))
                    => ~ (new_time <= sessions[j].time
                            /\ sessions[j].time < new_time + sessions[i].dur))
            => reschedule_pt_session(sessions[i].member, i, new_time).error = "none"

====
